---- MODULE Spec2Model ----
(***************************************************************************)
(* Model of github.com/null-bd/logger: the goroutine-keyed trace store    *)
(* with its background cleanup routine (trace_context.go) and the Logger  *)
(* that assembles and writes records (logger.go).                         *)
(***************************************************************************)
EXTENDS Integers, Sequences, FiniteSets, TLC

(* ------------------------------ bounds -------------------------------- *)
\* application goroutines calling the trace API
NumGoroutines == 2
\* distinct field maps each goroutine may pass to SetTraceFields
NumVals == 2
\* trace-API calls made in total, over all goroutines
MaxCalls == 4
\* trace-API calls made in total in the runs checked for liveness
FairCalls == 2
\* last value of the (discrete) wall clock
MaxClock == 2

\* Logger instances: the one NewLogger returns and those made by WithFields
MaxLoggers == 3
\* Logger instances in the runs that explore every configuration and call
LogLoggers == 2
\* entries of Config.OutputPaths
MaxSinks == 2
\* Logger calls made in total when goroutines log concurrently
MaxLogs == 2
\* trace-API calls made in total in the runs where callers write to their maps
OwnCalls == 3
\* bytes of a stack header after the "goroutine " prefix
MaxStackLen == 3

(* ------------------- configuration (trace_context.go) ----------------- *)
\* var maxTraceAge, scaled to clock units
maxTraceAge == 1
\* var maxTraceEntries, scaled to the number of goroutines
maxTraceEntries == 1
\* bitSize of strconv.ParseUint(s, 10, 64), scaled to the length of the stack headers
UintBits == 4
MaxUint == 2^UintBits - 1

Goroutines == 1..NumGoroutines
\* the goroutine started by startCleanupRoutine
CleanerG == 0
NoOwner == -1

(* --------------------------- types.Fields ----------------------------- *)
\* a field value: interface{} holding a string (numbered constant), an int
\* or a value encoding/json cannot marshal (a channel)
StrVal(n) == [kind |-> "string", v |-> n]
IntVal(n) == [kind |-> "int", v |-> n]
ChanVal == [kind |-> "chan", v |-> 0]

\* a Go value of type types.Fields: nil or a map
NilFields == [isNil |-> TRUE, m |-> <<>>]
MkFields(m) == [isNil |-> FALSE, m |-> m]

\* for k, v := range src { dst[k] = v }
Overlay(dst, src) ==
    [k \in DOMAIN dst \cup DOMAIN src |-> IF k \in DOMAIN src THEN src[k] ELSE dst[k]]

\* the i-th map goroutine g passes to SetTraceFields; its value names g
OwnFields(g, i) == MkFields("trace" :> StrVal(10 * g + i))
SetInputs(g) == {OwnFields(g, i) : i \in 1..NumVals}
OwnerOf(f) == f.m["trace"].v \div 10

(* ------------------------------ state --------------------------------- *)
VARIABLES
    traces,   \* globalTraceContext.traces: set of [gID, fields, timestamp]
    mu,       \* globalTraceContext.mu: [writer, readers]
    clock,    \* time.Now()
    pc,       \* per goroutine: "idle" or the call whose critical section it is in
    arg,      \* per goroutine: the fields argument of the running SetTraceFields
    ret,      \* per goroutine: [valid, fields], result of its last call if a Get
    hist,     \* per goroutine: the calls completed so far, <<op, fields>>
    evicted,  \* per goroutine: cleanup removed its entry since its last Set/Clear
    panicked, \* goroutines that panicked
    cl,       \* cleanup goroutine: pc, locals of cleanupTraces, record of the cycle
    quota     \* trace-API calls the goroutines make in this run

storeVars == <<traces, mu, clock, pc, arg, ret, hist, evicted, panicked, cl, quota>>

VARIABLES
    lcfg,     \* the *types.Config shared by a logger and its children
    loggers,  \* per Logger instance: [live, config, writers, defaultFields, mu]
    sinks,    \* per writer of lcfg.OutputPaths: the Write calls it received
    lp,       \* per goroutine: its running or last Logger call
    nlogs,    \* Logger calls begun so far
    lrun,     \* this run's Logger calls: how many, on how many loggers, by whom, the levels
              \* and fields used
    exited,   \* os.Exit was called
    built,    \* what the last NewLogger call returned: [called, cfgNil, paths, bad, err, logger]
    idq       \* the last getGoroutineID call on a given stack header: [called, stack, panics, n]

logVars == <<lcfg, loggers, sinks, lp, nlogs, lrun, exited, built, idq>>

(* ------------------------- getGoroutineID ----------------------------- *)
Digit(d) == CASE d = 0 -> "0" [] d = 1 -> "1" [] d = 2 -> "2" [] d = 3 -> "3"
              [] d = 4 -> "4" [] d = 5 -> "5" [] d = 6 -> "6" [] d = 7 -> "7"
              [] d = 8 -> "8" [] d = 9 -> "9"

DigitValue(c) == CASE c = "0" -> 0 [] c = "1" -> 1 [] c = "2" -> 2 [] c = "3" -> 3
                   [] c = "4" -> 4 [] c = "5" -> 5 [] c = "6" -> 6 [] c = "7" -> 7
                   [] c = "8" -> 8 [] c = "9" -> 9 [] OTHER -> -1

RECURSIVE Decimal(_)
Decimal(n) == IF n < 10 THEN <<Digit(n)>> ELSE Decimal(n \div 10) \o <<Digit(n % 10)>>

GoroutinePrefix == <<"g", "o", "r", "o", "u", "t", "i", "n", "e", " ">>

\* runtime.Stack(b, false): "goroutine N [running]:..." as a byte sequence
RuntimeStack(g) == GoroutinePrefix \o Decimal(g) \o <<" ", "[", "r", "u", "n">>

HasPrefix(b, p) == Len(b) >= Len(p) /\ SubSeq(b, 1, Len(p)) = p
TrimPrefix(b, p) == IF HasPrefix(b, p) THEN SubSeq(b, Len(p) + 1, Len(b)) ELSE b

\* bytes.IndexByte: 0-based index of the first c, or -1
IndexByte(b, c) ==
    IF \E i \in 1..Len(b) : b[i] = c
    THEN (CHOOSE i \in 1..Len(b) : b[i] = c /\ \A j \in 1..(i - 1) : b[j] # c) - 1
    ELSE -1

RECURSIVE ParseDigits(_, _)
ParseDigits(s, acc) ==
    IF s = <<>> THEN acc
    ELSE IF DigitValue(Head(s)) < 0 THEN -1
    ELSE ParseDigits(Tail(s), 10 * acc + DigitValue(Head(s)))

\* n, _ := strconv.ParseUint(s, 10, 64): 0 when s is not a number, the largest
\* value when the number is out of range
ParseUint(s) ==
    IF s = <<>> \/ ParseDigits(s, 0) < 0 THEN 0
    ELSE IF ParseDigits(s, 0) > MaxUint THEN MaxUint
    ELSE ParseDigits(s, 0)

\* b[:n] panics when n is out of range
SlicePanics(b, n) == n < 0 \/ n > Len(b)

\* the body of getGoroutineID on the bytes runtime.Stack wrote: whether it panics,
\* else the number it returns
ResolveStack(stack) ==
    LET b == TrimPrefix(stack, GoroutinePrefix)
        i == IndexByte(b, " ")
    IN  IF SlicePanics(b, i) THEN [panics |-> TRUE, n |-> 0]
        ELSE [panics |-> FALSE, n |-> ParseUint(SubSeq(b, 1, i))]

\* variant: the identity every failed parse collapses to
getGoroutineIDFallback(g) == 0

\* getGoroutineID on the stack header the runtime gives goroutine g
getGoroutineID(g) == ResolveStack(RuntimeStack(g)).n

(* --------------------------- map operations --------------------------- *)
HasKey(m, k) == \E e \in m : e.gID = k
EntryOf(m, k) == CHOOSE e \in m : e.gID = k

\* m[k] = &traceEntry{fields, timestamp}: insert or overwrite
MapAssign(m, k, f, ts) ==
    {e \in m : e.gID # k} \cup {[gID |-> k, fields |-> f, timestamp |-> ts]}

\* delete(m, k): a no-op when k is absent
MapDelete(m, k) == {e \in m : e.gID # k}

\* entry, exists := m[k]; entry.fields or nil
MapLookup(m, k) == IF HasKey(m, k) THEN EntryOf(m, k).fields ELSE NilFields

(* ----------------------------- sync.RWMutex --------------------------- *)
\* variant: a writer does not wait for the readers
CanLockDespiteReaders(m) == m.writer = NoOwner
\* variant: the exclusive lock is kept
UnlockKept(m) == m

CanLock(m) == m.writer = NoOwner /\ m.readers = {}
CanRLock(m) == m.writer = NoOwner
Lock(m, p) == [m EXCEPT !.writer = p]
Unlock(m) == [m EXCEPT !.writer = NoOwner]
RLock(m, p) == [m EXCEPT !.readers = @ \cup {p}]
RUnlock(m, p) == [m EXCEPT !.readers = @ \ {p}]

NoRet == [valid |-> FALSE, fields |-> NilFields]
Done(g, op, f) == hist' = [hist EXCEPT ![g] = Append(@, <<op, f>>)]
\* calls begun so far, over all goroutines
RECURSIVE Calls(_)
Calls(S) ==
    IF S = {} THEN 0
    ELSE LET g == CHOOSE x \in S : TRUE
         IN  Len(hist[g]) + (IF pc[g] = "idle" THEN 0 ELSE 1) + Calls(S \ {g})
CanCall(g) == pc[g] = "idle" /\ Calls(Goroutines) < quota /\ g \notin panicked

(* --------------------------- SetTraceFields --------------------------- *)
\* gID := getGoroutineID(); mu.Lock()
SetLock(g, f) ==
    /\ CanCall(g)
    /\ CanLock(mu)
    /\ mu' = Lock(mu, g)
    /\ pc' = [pc EXCEPT ![g] = "set"]
    /\ arg' = [arg EXCEPT ![g] = f]
    /\ UNCHANGED <<logVars, quota, traces, clock, ret, hist, evicted, panicked, cl>>

\* variant: insert only, an existing entry is kept
SetResultInsertOnly(m, gID, f, now) == IF HasKey(m, gID) THEN m ELSE MapAssign(m, gID, f, now)

\* the stored entry after SetTraceFields(f) by the goroutine with identity gID
SetResult(m, gID, f, now) == MapAssign(m, gID, f, now)

\* traces[gID] = &traceEntry{fields, time.Now()}; mu.Unlock()
SetTraceFields(g) ==
    /\ pc[g] = "set"
    /\ traces' = SetResult(traces, getGoroutineID(g), arg[g], clock)
    /\ mu' = Unlock(mu)
    /\ pc' = [pc EXCEPT ![g] = "idle"]
    /\ ret' = [ret EXCEPT ![g] = NoRet]
    /\ evicted' = [evicted EXCEPT ![g] = FALSE]
    /\ Done(g, "set", arg[g])
    /\ UNCHANGED <<logVars, quota, clock, arg, panicked, cl>>

(* --------------------------- GetTraceFields --------------------------- *)
\* gID := getGoroutineID(); mu.RLock()
GetRLock(g) ==
    /\ CanCall(g)
    /\ CanRLock(mu)
    /\ mu' = RLock(mu, g)
    /\ pc' = [pc EXCEPT ![g] = "get"]
    /\ UNCHANGED <<logVars, quota, traces, clock, arg, ret, hist, evicted, panicked, cl>>

\* what GetTraceFields returns to the goroutine with identity gID
GetResult(m, gID) == MapLookup(m, gID)

\* return entry.fields or nil; deferred mu.RUnlock()
GetTraceFields(g) ==
    /\ pc[g] = "get"
    /\ ret' = [ret EXCEPT ![g] = [valid |-> TRUE, fields |-> GetResult(traces, getGoroutineID(g))]]
    /\ mu' = RUnlock(mu, g)
    /\ pc' = [pc EXCEPT ![g] = "idle"]
    /\ Done(g, "get", NilFields)
    /\ UNCHANGED <<logVars, quota, traces, clock, arg, evicted, panicked, cl>>

(* -------------------------- ClearTraceFields -------------------------- *)
\* gID := getGoroutineID(); mu.Lock()
ClearLock(g) ==
    /\ CanCall(g)
    /\ CanLock(mu)
    /\ mu' = Lock(mu, g)
    /\ pc' = [pc EXCEPT ![g] = "clear"]
    /\ UNCHANGED <<logVars, quota, traces, clock, arg, ret, hist, evicted, panicked, cl>>

\* variant: the entry is dereferenced before the delete
ClearResultMustExist(m, gID) == [traces |-> MapDelete(m, gID), panics |-> ~HasKey(m, gID)]

\* delete(traces, gID): the map afterwards, and whether the call panics
ClearResult(m, gID) == [traces |-> MapDelete(m, gID), panics |-> FALSE]

\* delete(traces, gID); mu.Unlock()
ClearTraceFields(g) ==
    LET r == ClearResult(traces, getGoroutineID(g))
    IN  /\ pc[g] = "clear"
        /\ traces' = r.traces
        /\ panicked' = IF r.panics THEN panicked \cup {g} ELSE panicked
        /\ mu' = Unlock(mu)
        /\ pc' = [pc EXCEPT ![g] = "idle"]
        /\ ret' = [ret EXCEPT ![g] = NoRet]
        /\ evicted' = [evicted EXCEPT ![g] = FALSE]
        /\ Done(g, "clear", NilFields)
        /\ UNCHANGED <<logVars, quota, clock, arg, cl>>

(* ------------------------- the caller's map --------------------------- *)
\* types.Fields is a map: SetTraceFields stores the reference it is given and
\* GetTraceFields returns the stored reference. The maps goroutine g can write to:
\* the argument of its last SetTraceFields and the result of its last GetTraceFields
HeldBy(g) == {f \in {arg[g], ret[g].fields} : ~f.isNil}

\* f["mut"] = "1" by the caller
MutateResult(f) == MkFields(Overlay(f.m, "mut" :> StrVal(1)))

\* what a reference x shows after the map f was written to (map objects are told
\* apart by their contents: the maps of the runs are pairwise different)
Alias(x, f, f2) == IF x = f THEN f2 ELSE x

\* goroutine g, outside any call, writes to a map it holds
Mutate(g, f) ==
    LET f2 == MutateResult(f)
    IN  /\ pc[g] = "idle" /\ g \notin panicked
        /\ f \in HeldBy(g) /\ "mut" \notin DOMAIN f.m
        /\ traces' = {[e EXCEPT !.fields = Alias(@, f, f2)] : e \in traces}
        /\ arg' = [h \in Goroutines |-> Alias(arg[h], f, f2)]
        /\ ret' = [h \in Goroutines |-> [ret[h] EXCEPT !.fields = Alias(@, f, f2)]]
        /\ UNCHANGED <<logVars, quota, mu, clock, pc, hist, evicted, panicked, cl>>

(* ------------------------------- clock -------------------------------- *)
\* time passes
Tick ==
    /\ clock < MaxClock
    /\ clock' = clock + 1
    /\ UNCHANGED <<logVars, quota, traces, mu, pc, arg, ret, hist, evicted, panicked, cl>>

(* --------------------------- cleanupTraces ---------------------------- *)
\* variant: the subtraction the other way round
ExpiredReversed(now, e) == e.timestamp - now > maxTraceAge

\* now.Sub(entry.timestamp) > maxTraceAge
Expired(now, e) == now - e.timestamp > maxTraceAge

CleanerIdle == [pc |-> "wait", now |-> 0, expiredIDs |-> {}, totalEntries |-> 0,
                startExpired |-> {}, ageDeleted |-> {},
                sized |-> FALSE, before |-> {}, after |-> {}]

\* e is older than age at time now
OlderThan(e, now, age) == e.timestamp + age < now

\* ticker.C fires: cleanupTraces() begins, now := time.Now()
CleanupStart ==
    /\ cl.pc = "wait"
    /\ cl' = [CleanerIdle EXCEPT !.pc = "start", !.now = clock,
                                 !.startExpired = {e \in traces : OlderThan(e, clock, maxTraceAge)}]
    /\ UNCHANGED <<logVars, quota, traces, mu, clock, pc, arg, ret, hist, evicted, panicked>>

\* mu.RLock()
CleanupRLock ==
    /\ cl.pc = "start"
    /\ CanRLock(mu)
    /\ mu' = RLock(mu, CleanerG)
    /\ cl' = [cl EXCEPT !.pc = "snap"]
    /\ UNCHANGED <<logVars, quota, traces, clock, pc, arg, ret, hist, evicted, panicked>>

\* first pass: the identities appended to expiredIDs
ExpiredIDs(m, now) == {e.gID : e \in {x \in m : Expired(now, x)}}

\* where cleanupTraces goes after the snapshot / after the age pass
AfterSnapshot(expired, total) ==
    IF expired # {} THEN "age_wait"
    ELSE IF total > maxTraceEntries THEN "size_wait" ELSE "done"
AfterAge(total) == IF total > maxTraceEntries THEN "size_wait" ELSE "done"

\* the range loop, totalEntries := len(traces), mu.RUnlock()
CleanupSnapshot ==
    LET ids == ExpiredIDs(traces, cl.now)
        total == Cardinality(traces)
        next == AfterSnapshot(ids, total)
    IN  /\ cl.pc = "snap"
        /\ mu' = RUnlock(mu, CleanerG)
        /\ cl' = [cl EXCEPT !.pc = next, !.expiredIDs = ids, !.totalEntries = total]
        /\ UNCHANGED <<logVars, quota, traces, clock, pc, arg, ret, hist, evicted, panicked>>

\* len(expiredIDs) > 0: mu.Lock()
CleanupAgeLock ==
    /\ cl.pc = "age_wait"
    /\ CanLock(mu)
    /\ mu' = Lock(mu, CleanerG)
    /\ cl' = [cl EXCEPT !.pc = "age"]
    /\ UNCHANGED <<logVars, quota, traces, clock, pc, arg, ret, hist, evicted, panicked>>

\* second pass: delete(traces, gID) for every gID in expiredIDs
AgeDeleteResult(m, ids) == {e \in m : e.gID \notin ids}

\* goroutines whose entry is in m but not in m2
Lost(m, m2) == {g \in Goroutines : \E e \in m \ m2 : e.gID = getGoroutineID(g)}

\* the delete loop and mu.Unlock()
CleanupAgeDelete ==
    LET after == AgeDeleteResult(traces, cl.expiredIDs)
        next == AfterAge(cl.totalEntries)
    IN  /\ cl.pc = "age"
        /\ traces' = after
        /\ mu' = Unlock(mu)
        /\ evicted' = [g \in Goroutines |-> evicted[g] \/ g \in Lost(traces, after)]
        /\ cl' = [cl EXCEPT !.pc = next, !.ageDeleted = traces \ after]
        /\ UNCHANGED <<logVars, quota, clock, pc, arg, ret, hist, panicked>>

(* ----------------------- performSizeBasedCleanup ---------------------- *)
\* totalEntries > maxTraceEntries: performSizeBasedCleanup() takes mu.Lock()
SizeLock ==
    /\ cl.pc = "size_wait"
    /\ CanLock(mu)
    /\ mu' = Lock(mu, CleanerG)
    /\ cl' = [cl EXCEPT !.pc = "size"]
    /\ UNCHANGED <<logVars, quota, traces, clock, pc, arg, ret, hist, evicted, panicked>>

\* variant: newest first
LessNewestFirst(a, b) == a.timestamp > b.timestamp

\* the less function given to sort.Slice: entries[i].timestamp.Before(entries[j].timestamp)
Less(a, b) == a.timestamp < b.timestamp

\* the orders sort.Slice may leave the entries in (ties in any order)
SortOutcomes(m) ==
    LET n == Cardinality(m)
    IN  {s \in [1..n -> m] :
            /\ \A i, j \in 1..n : i # j => s[i] # s[j]
            /\ \A i, j \in 1..n : i < j => ~Less(s[j], s[i])}

\* variant: the loop stops one short
RemoveCountShort(n) == n - maxTraceEntries - 1

\* for i := 0; i < len(entries)-maxTraceEntries; i++ { delete(traces, entries[i].gID) }
RemoveCount(n) == n - maxTraceEntries

\* the map after performSizeBasedCleanup when the sort left the entries as `order`
SizeCleanupResult(m, order) ==
    IF Cardinality(m) > maxTraceEntries
    THEN {e \in m : \A i \in 1..RemoveCount(Len(order)) : order[i].gID # e.gID}
    ELSE m

\* the body of performSizeBasedCleanup and the deferred mu.Unlock()
SizeCleanup ==
    /\ cl.pc = "size"
    /\ \E order \in SortOutcomes(traces) :
         LET after == SizeCleanupResult(traces, order)
         IN  /\ traces' = after
             /\ evicted' = [g \in Goroutines |-> evicted[g] \/ g \in Lost(traces, after)]
             /\ cl' = [cl EXCEPT !.pc = "done", !.sized = TRUE,
                                 !.before = traces, !.after = after]
    /\ mu' = Unlock(mu)
    /\ UNCHANGED <<logVars, quota, clock, pc, arg, ret, hist, panicked>>

\* cleanupTraces returns; the goroutine waits for the next tick
CleanupReturn ==
    /\ cl.pc = "done"
    /\ cl' = CleanerIdle
    /\ UNCHANGED <<logVars, quota, traces, mu, clock, pc, arg, ret, hist, evicted, panicked>>

\* init(): an empty store, the cleanup goroutine waiting on its ticker
InitStoreWith(m) ==
    /\ traces = m
    /\ mu = [writer |-> NoOwner, readers |-> {}]
    /\ clock = 0
    /\ pc = [g \in Goroutines |-> "idle"]
    /\ arg = [g \in Goroutines |-> NilFields]
    /\ ret = [g \in Goroutines |-> NoRet]
    /\ hist = [g \in Goroutines |-> <<>>]
    /\ evicted = [g \in Goroutines |-> FALSE]
    /\ panicked = {}
    /\ cl = CleanerIdle

InitStore == InitStoreWith({})

(* ------------------------------ Logger -------------------------------- *)
Levels == {"debug", "info", "warn", "error", "fatal"}
Formats == {"json", "text"}
Loggers == 1..MaxLoggers
NoLogger == 0

\* reserved keys lifted out of the trace fields by Logger.log
RequestIDKey == "request_id"
TraceIDKey == "trace_id"

\* string constants used as field values
S(n) == StrVal(n)
\* an empty string field of logEntry
NoString == StrVal(0)

\* what a goroutine's trace entry may hold when it logs (0: no entry)
TraceInput(i) ==
    CASE i = 1 -> MkFields(("a" :> S(2)) @@ ("b" :> S(3)))
      [] i = 2 -> MkFields((RequestIDKey :> S(7)) @@ ("b" :> S(3)))
      [] i = 3 -> MkFields((TraceIDKey :> S(8)) @@ ("a" :> S(2)))
      [] i = 4 -> MkFields(RequestIDKey :> IntVal(42))
      [] OTHER -> NilFields
TraceChoices == 0..4
\* Config.DefaultFields
DefaultInputs == {<<>>, "a" :> S(1)}
\* the fields argument of Debug/Info/Warn/Error/Fatal
CallInputs == {NilFields, MkFields("a" :> S(4)), MkFields("b" :> ChanVal)}
\* the fields argument of WithFields
WithInputs == {MkFields("a" :> S(5)), MkFields("b" :> S(6))}

FreeMutex == [writer |-> NoOwner, readers |-> {}]
NoCall == [pc |-> "idle", id |-> 0, logger |-> NoLogger, level |-> "debug",
           fields |-> NilFields, outcome |-> "none",
           entry |-> [RequestID |-> NoString, TraceID |-> NoString, Fields |-> <<>>],
           w |-> 0, part |-> "rec"]

\* the address of the *types.Config a logger and its children point to
ConfigPtr == "cfg"
\* a Logger that does not exist
NilLogger == [live |-> FALSE, config |-> "nil", writers |-> <<>>, defaultFields |-> <<>>,
              mu |-> FreeMutex]

\* the i-th entry of Config.OutputPaths in the runs that start from a built logger
StdPath(i) == IF i = 1 THEN "stdout" ELSE IF i = 2 THEN "stderr" ELSE "app.log"
StdPaths(n) == [i \in 1..n |-> StdPath(i)]
\* paths that name a file: os.OpenFile may fail on them
FilePaths == {"app.log", "/no/dir/b.log"}

\* a *types.Config: nil or a pointer to a Config value
NilConfig == [isNil |-> TRUE]
MkConfig(level, format, paths, defaults) ==
    [isNil |-> FALSE, ServiceName |-> "svc", Environment |-> "prod", LogLevel |-> level,
     Format |-> format, DefaultFields |-> defaults, OutputPaths |-> paths]

\* defaultConfig(): DefaultFields is left nil
defaultConfig ==
    [isNil |-> FALSE, ServiceName |-> "unknown", Environment |-> "development",
     LogLevel |-> "info", Format |-> "json", DefaultFields |-> <<>>,
     OutputPaths |-> <<"stdout">>]

\* Logger.createWriter: stdout and stderr always exist, a file in `bad` cannot be opened
createWriter(path, bad) ==
    IF path \in {"stdout", "stderr"} THEN [err |-> FALSE, w |-> path]
    ELSE IF path \in bad THEN [err |-> TRUE, w |-> "nil"]
    ELSE [err |-> FALSE, w |-> path]

\* Logger.initializeWriters: the loop over OutputPaths, from the writers appended so far
RECURSIVE initializeWriters(_, _, _)
initializeWriters(paths, bad, writers) ==
    IF paths = <<>> THEN [err |-> FALSE, writers |-> writers]
    ELSE LET r == createWriter(Head(paths), bad)
         IN  IF r.err THEN [err |-> TRUE, writers |-> writers]
             ELSE initializeWriters(Tail(paths), bad, Append(writers, r.w))

\* variant: a path that cannot be opened is skipped
NewLoggerResultSkipping(cfg, bad) ==
    LET c == IF cfg.isNil THEN defaultConfig ELSE cfg
        ok == SelectSeq(c.OutputPaths, LAMBDA x : ~createWriter(x, bad).err)
    IN  [err |-> FALSE, config |-> c,
         logger |-> [live |-> TRUE, config |-> ConfigPtr, writers |-> ok,
                     defaultFields |-> Overlay(<<>>, c.DefaultFields), mu |-> FreeMutex]]

\* NewLogger(cfg): the error, the logger returned and the configuration it uses
NewLoggerResult(cfg, bad) ==
    LET c == IF cfg.isNil THEN defaultConfig ELSE cfg
        r == initializeWriters(c.OutputPaths, bad, <<>>)
    IN  IF r.err THEN [err |-> TRUE, config |-> c, logger |-> NilLogger]
        ELSE [err |-> FALSE, config |-> c,
              logger |-> [live |-> TRUE, config |-> ConfigPtr, writers |-> r.writers,
                          defaultFields |-> Overlay(<<>>, c.DefaultFields), mu |-> FreeMutex]]

\* the configuration the loggers read, and the writers whose Write returns an error
Installed(c, broken) ==
    [ServiceName |-> c.ServiceName, Environment |-> c.Environment, LogLevel |-> c.LogLevel,
     Format |-> c.Format, DefaultFields |-> c.DefaultFields, OutputPaths |-> c.OutputPaths,
     nsinks |-> Len(c.OutputPaths), broken |-> broken]

NotBuilt == [called |-> FALSE, cfgNil |-> FALSE, paths |-> <<>>, bad |-> {}, err |-> FALSE,
             logger |-> NoLogger]
Built(cfg, bad, r) ==
    [called |-> TRUE, cfgNil |-> cfg.isNil, paths |-> r.config.OutputPaths, bad |-> bad,
     err |-> r.err, logger |-> IF r.err THEN NoLogger ELSE 1]
NoQuery == [called |-> FALSE, stack |-> <<>>, panics |-> FALSE, n |-> 0]

NoRun == [calls |-> 0, loggers |-> 0, callers |-> {}, levels |-> {}, fields |-> {}]

\* no logger constructed yet; `run` is what the goroutines will do with the logger
InitNoLoggerWith(run) ==
    /\ lcfg = Installed(defaultConfig, {})
    /\ loggers = [l \in Loggers |-> NilLogger]
    /\ sinks = [w \in 1..MaxSinks |-> <<>>]
    /\ lp = [g \in Goroutines |-> NoCall]
    /\ nlogs = 0
    /\ lrun = run
    /\ exited = FALSE
    /\ built = NotBuilt
    /\ idq = NoQuery

\* no logger constructed: the state of the logger while only the trace API is used
InitNoLogger == InitNoLoggerWith(NoRun)

\* the state after NewLogger(cfg) returned logger 1, every path opened
NewLogger(cfg, broken) ==
    LET r == NewLoggerResult(cfg, {})
    IN  /\ lcfg = Installed(r.config, broken)
        /\ loggers = [l \in Loggers |-> IF l = 1 THEN r.logger ELSE NilLogger]
        /\ sinks = [w \in 1..MaxSinks |-> <<>>]
        /\ lp = [g \in Goroutines |-> NoCall]
        /\ nlogs = 0
        /\ exited = FALSE
        /\ built = Built(cfg, {}, r)
        /\ idq = NoQuery

\* NewLogger(cfg) is called; the files in `bad` cannot be opened
NewLoggerCall(cfg, bad) ==
    LET r == NewLoggerResult(cfg, bad)
    IN  /\ ~built.called
        /\ built' = Built(cfg, bad, r)
        /\ IF r.err THEN UNCHANGED <<lcfg, loggers>>
           ELSE /\ lcfg' = Installed(r.config, {})
                /\ loggers' = [loggers EXCEPT ![1] = r.logger]
        /\ UNCHANGED <<sinks, lp, nlogs, lrun, exited, idq>>
        /\ UNCHANGED storeVars

\* variant: strictly above the configured level
isLevelEnabledStrict(level, configured) ==
    LET levels == [l \in Levels |->
                     CASE l = "debug" -> 0 [] l = "info" -> 1 [] l = "warn" -> 2
                       [] l = "error" -> 3 [] l = "fatal" -> 4]
    IN  levels[level] > levels[configured]

\* Logger.isLevelEnabled
isLevelEnabled(level, configured) ==
    LET levels == [l \in Levels |->
                     CASE l = "debug" -> 0 [] l = "info" -> 1 [] l = "warn" -> 2
                       [] l = "error" -> 3 [] l = "fatal" -> 4]
    IN  levels[level] >= levels[configured]

\* v.(string) panics unless v holds a string
AssertionPanics(tf) ==
    \E k \in DOMAIN tf.m \cap {RequestIDKey, TraceIDKey} : tf.m[k].kind # "string"

\* the loop over GetTraceFields() in Logger.log: the entry it leaves
FromTrace(tf) ==
    [RequestID |-> IF RequestIDKey \in DOMAIN tf.m THEN tf.m[RequestIDKey] ELSE NoString,
     TraceID |-> IF TraceIDKey \in DOMAIN tf.m THEN tf.m[TraceIDKey] ELSE NoString,
     Fields |-> [k \in DOMAIN tf.m \ {RequestIDKey, TraceIDKey} |-> tf.m[k]]]

\* variant: default fields applied last
mergeFieldsDefaultsLast(entry, defaults, fields) ==
    [entry EXCEPT !.Fields = Overlay(Overlay(@, fields.m), defaults)]

\* Logger.mergeFields: default fields, then the call's fields
mergeFields(entry, defaults, fields) ==
    [entry EXCEPT !.Fields = Overlay(Overlay(@, defaults), fields.m)]

\* json.Marshal(entry) returns an error
MarshalFails(entry) == \E k \in DOMAIN entry.Fields : entry.Fields[k].kind = "chan"

\* writeLog produces no output: only the json branch can fail
NoOutput(format, entry) == format = "json" /\ MarshalFails(entry)

LogCalls == {"debug", "info", "warn", "error", "fatal"}
CanLog(g) ==
    /\ lp[g].pc = "idle" /\ pc[g] = "idle"
    /\ nlogs < lrun.calls /\ ~exited /\ g \notin panicked

\* the goroutine leaves Logger.log; Fatal then calls os.Exit(1)
Return(c, outcome) == [c EXCEPT !.pc = "idle", !.outcome = outcome]
ExitAfter(c) == c.level = "fatal"

\* Debug/Info/Warn/Error/Fatal(msg, fields) on logger l, up to the call of mergeFields:
\* the level check and the loop over GetTraceFields()
LogBegin(g, l, level, fields) ==
    LET c == [NoCall EXCEPT !.id = nlogs + 1, !.logger = l, !.level = level, !.fields = fields]
        tf == GetResult(traces, getGoroutineID(g))
    IN  /\ CanLog(g)
        /\ g \in lrun.callers /\ level \in lrun.levels /\ fields \in lrun.fields
        /\ loggers[l].live
        /\ nlogs' = nlogs + 1
        /\ IF ~isLevelEnabled(level, lcfg.LogLevel)
           THEN /\ lp' = [lp EXCEPT ![g] = Return(c, "filtered")]
                /\ exited' = ExitAfter(c)
                /\ UNCHANGED panicked
           ELSE IF AssertionPanics(tf)
           THEN /\ lp' = [lp EXCEPT ![g] = [c EXCEPT !.pc = "panicked", !.outcome = "panic"]]
                /\ panicked' = panicked \cup {g}
                /\ UNCHANGED exited
           ELSE /\ lp' = [lp EXCEPT ![g] = [c EXCEPT !.pc = "merge", !.entry = FromTrace(tf)]]
                /\ UNCHANGED <<panicked, exited>>
        /\ UNCHANGED <<lcfg, loggers, sinks, lrun, built, idq>>
        /\ UNCHANGED <<traces, mu, clock, pc, arg, ret, hist, evicted, cl, quota>>

\* variant: entry.Fields is the map GetTraceFields returned
StoreAfterMergeAliased(m, gID, entry) ==
    {IF e.gID = gID THEN [e EXCEPT !.fields = MkFields(entry.Fields)] ELSE e : e \in m}

\* the trace store after Logger.log assembled `entry` for identity gID: entry.Fields
\* is a map of its own (make), the loop over the trace fields and mergeFields write
\* to it alone
StoreAfterMerge(m, gID, entry) == m

\* mergeFields under l.mu.RLock(), then the marshalling of writeLog
LogMerge(g) ==
    LET c == lp[g]
        e == mergeFields(c.entry, loggers[c.logger].defaultFields, c.fields)
    IN  /\ c.pc = "merge"
        /\ ~exited
        /\ CanRLock(loggers[c.logger].mu)
        /\ IF NoOutput(lcfg.Format, e)
           THEN /\ lp' = [lp EXCEPT ![g] = Return([c EXCEPT !.entry = e], "marshal_error")]
                /\ exited' = ExitAfter(c)
           ELSE /\ lp' = [lp EXCEPT ![g] = [c EXCEPT !.pc = "write_wait", !.entry = e]]
                /\ UNCHANGED exited
        /\ UNCHANGED <<lcfg, loggers, sinks, nlogs, lrun, built, idq>>
        /\ traces' = StoreAfterMerge(traces, getGoroutineID(g), e)
        /\ UNCHANGED <<mu, clock, pc, arg, ret, hist, evicted, panicked, cl, quota>>

\* writeLog: l.mu.Lock()
LogWriteLock(g) ==
    LET c == lp[g]
    IN  /\ c.pc = "write_wait"
        /\ ~exited
        /\ CanLock(loggers[c.logger].mu)
        /\ loggers' = [loggers EXCEPT ![c.logger].mu = Lock(@, g)]
        /\ lp' = [lp EXCEPT ![g] = [c EXCEPT !.pc = "writing", !.w = 1, !.part = "rec"]]
        /\ UNCHANGED <<lcfg, sinks, nlogs, lrun, exited, built, idq>>
        /\ UNCHANGED storeVars

\* one w.Write call of the loop in writeLog: the record, then "\n" in json format;
\* a broken sink returns an error, which is ignored. After the last one (or at once when
\* there are no writers): deferred l.mu.Unlock() and return
LogWrite(g) ==
    LET c == lp[g]
        writers == loggers[c.logger].writers
        chunk == [id |-> c.id, part |-> c.part, ok |-> c.w \notin lcfg.broken]
        more == lcfg.Format = "json" /\ c.part = "rec"
        last == ~more /\ c.w = Len(writers)
    IN  /\ c.pc = "writing"
        /\ ~exited
        /\ IF writers = <<>>
           THEN /\ lp' = [lp EXCEPT ![g] = Return(c, "written")]
                /\ loggers' = [loggers EXCEPT ![c.logger].mu = Unlock(@)]
                /\ exited' = ExitAfter(c)
                /\ UNCHANGED sinks
           ELSE /\ sinks' = [sinks EXCEPT ![c.w] = Append(@, chunk)]
                /\ IF more THEN /\ lp' = [lp EXCEPT ![g] = [c EXCEPT !.part = "nl"]]
                                /\ UNCHANGED <<loggers, exited>>
                   ELSE IF ~last
                   THEN /\ lp' = [lp EXCEPT ![g] = [c EXCEPT !.w = c.w + 1, !.part = "rec"]]
                        /\ UNCHANGED <<loggers, exited>>
                   ELSE /\ lp' = [lp EXCEPT ![g] = Return(c, "written")]
                        /\ loggers' = [loggers EXCEPT ![c.logger].mu = Unlock(@)]
                        /\ exited' = ExitAfter(c)
        /\ UNCHANGED <<lcfg, nlogs, lrun, built, idq>>
        /\ UNCHANGED storeVars

\* variant: the parent's value is kept on a colliding key
WithFieldsResultParentWins(defaults, fields) == Overlay(Overlay(<<>>, fields.m), defaults)

\* the default fields of the logger WithFields returns
WithFieldsResult(defaults, fields) == Overlay(Overlay(<<>>, defaults), fields.m)

\* the Logger WithFields builds: config and writers of the parent, a zero mutex
WithFieldsLogger(parent, fields) ==
    [live |-> TRUE, config |-> parent.config, writers |-> parent.writers,
     defaultFields |-> WithFieldsResult(parent.defaultFields, fields), mu |-> FreeMutex]

\* l.WithFields(fields): n, the next Logger instance, shares config and writers with
\* l and has its own mutex
WithFields(l, n, fields) ==
    /\ ~exited
    /\ loggers[l].live /\ ~loggers[n].live /\ n <= lrun.loggers
    /\ \A k \in Loggers : k < n => loggers[k].live
    /\ loggers' = [loggers EXCEPT ![n] = WithFieldsLogger(loggers[l], fields)]
    /\ UNCHANGED <<lcfg, sinks, lp, nlogs, lrun, exited, built, idq>>
    /\ UNCHANGED storeVars

\* the trace store when the logging starts: every goroutine has set TraceInput(i)
TracesWith(i) ==
    IF i = 0 THEN {}
    ELSE {[gID |-> getGoroutineID(g), fields |-> TraceInput(i), timestamp |-> 0] : g \in Goroutines}

LogNext ==
    \/ \E g \in Goroutines, l \in Loggers, level \in LogCalls, f \in CallInputs :
          LogBegin(g, l, level, f)
    \/ \E g \in Goroutines : LogMerge(g)
    \/ \E g \in Goroutines : LogWriteLock(g)
    \/ \E g \in Goroutines : LogWrite(g)
    \/ \E l, n \in Loggers, f \in WithInputs : WithFields(l, n, f)

\* one Logger call at a time, over every configuration
LogInit ==
    /\ \E i \in TraceChoices : InitStoreWith(TracesWith(i))
    /\ quota = 0
    /\ lrun = [calls |-> 1, loggers |-> LogLoggers, callers |-> {1}, levels |-> LogCalls,
               fields |-> CallInputs]
    /\ \E level \in Levels, format \in Formats, n \in 1..MaxSinks, d \in DefaultInputs,
          broken \in {{}, {1}} :
          NewLogger(MkConfig(level, format, StdPaths(n), d), broken)

(* --------------------------- specification ---------------------------- *)
\* the program after init(), no logger constructed
Init == InitStore /\ InitNoLogger /\ quota = MaxCalls

Next ==
    \/ \E g \in Goroutines : \E f \in SetInputs(g) : SetLock(g, f)
    \/ \E g \in Goroutines : SetTraceFields(g)
    \/ \E g \in Goroutines : GetRLock(g)
    \/ \E g \in Goroutines : GetTraceFields(g)
    \/ \E g \in Goroutines : ClearLock(g)
    \/ \E g \in Goroutines : ClearTraceFields(g)
    \/ Tick
    \/ CleanupStart
    \/ CleanupRLock
    \/ CleanupSnapshot
    \/ CleanupAgeLock
    \/ CleanupAgeDelete
    \/ SizeLock
    \/ SizeCleanup
    \/ CleanupReturn

vars == <<storeVars, logVars>>

Spec == Init /\ [][Next]_vars

SpecLog == LogInit /\ [][LogNext]_vars

\* two goroutines logging at once through a logger and its child
SinkInit ==
    /\ InitStore
    /\ quota = 0
    /\ lrun = [calls |-> MaxLogs, loggers |-> LogLoggers, callers |-> Goroutines,
               levels |-> {"info"}, fields |-> {NilFields}]
    /\ \E format \in Formats, n \in 1..MaxSinks :
          NewLogger(MkConfig("info", format, StdPaths(n), <<>>), {})

SpecSink == SinkInit /\ [][LogNext]_vars

\* the *types.Config values given to NewLogger
PathInputs == UNION {[1..n -> {"stdout"} \cup FilePaths] : n \in 0..MaxSinks}
ConfigInputs ==
    {NilConfig} \cup
    {MkConfig(level, format, paths, d) :
        level \in {"debug", "error"}, format \in Formats, paths \in PathInputs,
        d \in DefaultInputs}

NewNext ==
    \/ \E cfg \in ConfigInputs, bad \in SUBSET FilePaths : NewLoggerCall(cfg, bad)
    \/ LogNext

\* a program that builds its logger, derives loggers from it and logs
NewInit ==
    /\ InitStore
    /\ quota = 0
    /\ InitNoLoggerWith([calls |-> 1, loggers |-> MaxLoggers, callers |-> {1},
                         levels |-> {"info"}, fields |-> {NilFields}])

SpecNew == NewInit /\ [][NewNext]_vars

\* callers that keep and write to the maps they passed in or got back
OwnNext ==
    \/ \E g \in Goroutines : \E f \in SetInputs(g) : SetLock(g, f)
    \/ \E g \in Goroutines : SetTraceFields(g)
    \/ \E g \in Goroutines : GetRLock(g)
    \/ \E g \in Goroutines : GetTraceFields(g)
    \/ \E g \in Goroutines : ClearLock(g)
    \/ \E g \in Goroutines : ClearTraceFields(g)
    \/ \E g \in Goroutines : \E f \in SetInputs(g) : Mutate(g, f)

OwnInit == InitStore /\ InitNoLogger /\ quota = OwnCalls

SpecOwn == OwnInit /\ [][OwnNext]_vars

\* the bytes runtime.Stack may be thought to write: with or without the prefix, then
\* up to MaxStackLen bytes out of digits, a letter and the space
StackBytes == {"1", "9", "x", " "}
StackInputs ==
    LET rest == UNION {[1..n -> StackBytes] : n \in 0..MaxStackLen}
    IN  rest \cup {GoroutinePrefix \o r : r \in rest}

\* getGoroutineID() is called when runtime.Stack wrote `stack`
Resolve(stack) ==
    LET r == ResolveStack(stack)
    IN  /\ idq' = [called |-> TRUE, stack |-> stack, panics |-> r.panics, n |-> r.n]
        /\ UNCHANGED <<lcfg, loggers, sinks, lp, nlogs, lrun, exited, built>>
        /\ UNCHANGED storeVars

IDNext == \E stack \in StackInputs : Resolve(stack)

IDInit == InitStore /\ InitNoLogger /\ quota = 0

SpecID == IDInit /\ [][IDNext]_vars

\* the steps of the cleanup goroutine, and of goroutine g inside a critical section
Cleaner ==
    \/ CleanupStart \/ CleanupRLock \/ CleanupSnapshot \/ CleanupAgeLock
    \/ CleanupAgeDelete \/ SizeLock \/ SizeCleanup \/ CleanupReturn
Release(g) == SetTraceFields(g) \/ GetTraceFields(g) \/ ClearTraceFields(g)

\* the scheduler runs every goroutine, the ticker keeps firing, time passes
Fairness ==
    /\ WF_vars(Tick)
    /\ WF_vars(Cleaner)
    /\ \A g \in Goroutines : WF_vars(Release(g))

FairInit == InitStore /\ InitNoLogger /\ quota = FairCalls

FairSpec == FairInit /\ [][Next]_vars /\ Fairness

(* ------------------------ reading the histories ----------------------- *)
Op(h, i) == h[i][1]
Arg(h, i) == h[i][2]
Returned(g) == pc[g] = "idle" /\ hist[g] # <<>>
LastOp(g) == Op(hist[g], Len(hist[g]))
\* the entries the store holds for goroutine g
EntriesOf(m, g) == {e \in m : e.gID = getGoroutineID(g)}
\* g's Get returned after its Set(f), with only Gets of g in between
RECURSIVE LastWrite(_)
LastWrite(h) ==
    IF h = <<>> THEN <<"none", NilFields>>
    ELSE IF Op(h, Len(h)) = "get" THEN LastWrite(SubSeq(h, 1, Len(h) - 1))
    ELSE h[Len(h)]
\* this step is goroutine a's Set or Clear critical section
WriteStepOf(a) == pc[a] \in {"set", "clear"} /\ pc'[a] = "idle"

(* ------------------------------- C1 ----------------------------------- *)
GetIsOwn ==
    \A b \in Goroutines :
        (ret[b].valid /\ ~ret[b].fields.isNil) => OwnerOf(ret[b].fields) = b
OthersUntouched ==
    \A a \in Goroutines : WriteStepOf(a) =>
        \A b \in Goroutines \ {a} : EntriesOf(traces', b) = EntriesOf(traces, b)
\* C1 (isolation): a GetTraceFields under B never returns fields set under another
\* identity A, and a SetTraceFields or ClearTraceFields under A leaves the entry of
\* every other identity B (fields and timestamp) unchanged.
C1_Isolation == [](GetIsOwn) /\ [][OthersUntouched]_vars
\* B has read back its own fields while A holds an entry written after B's
C1_Witness ==
    \E a, b \in Goroutines :
        /\ a # b
        /\ ret[b].valid /\ ~ret[b].fields.isNil
        /\ EntriesOf(traces, a) # {} /\ EntriesOf(traces, b) # {}
        /\ \E ea \in EntriesOf(traces, a), eb \in EntriesOf(traces, b) :
               ea.timestamp > eb.timestamp

(* ------------------------------- C2 ----------------------------------- *)
LastWriteWins ==
    \A g \in Goroutines :
        (Returned(g) /\ LastOp(g) = "get" /\ LastWrite(hist[g])[1] = "set" /\ ~evicted[g])
            => ret[g].fields = LastWrite(hist[g])[2]
OneEntryPerIdentity == \A g \in Goroutines : Cardinality(EntriesOf(traces, g)) <= 1
ClearThenAbsent ==
    \A g \in Goroutines :
        /\ (Returned(g) /\ LastOp(g) = "clear") => EntriesOf(traces, g) = {}
        /\ (Returned(g) /\ LastOp(g) = "get" /\ LastWrite(hist[g])[1] = "clear")
              => ret[g].fields = NilFields
ClearLeavesOthers ==
    \A a \in Goroutines : (pc[a] = "clear" /\ pc'[a] = "idle") =>
        \A b \in Goroutines \ {a} : EntriesOf(traces', b) = EntriesOf(traces, b)
\* C3 (clear idempotence): ClearTraceFields, also twice in a row or with no entry
\* present, never panics, leaves every other identity's entry unchanged, and a
\* following GetTraceFields of the same identity returns nil.
C3_ClearIdempotent ==
    [](panicked = {} /\ ClearThenAbsent) /\ [][ClearLeavesOthers]_vars
\* Clear (no entry), Clear again, Get = nil, while another goroutine keeps its entry
C3_Witness ==
    \E g \in Goroutines :
        /\ Returned(g) /\ Len(hist[g]) = 3
        /\ Op(hist[g], 1) = "clear" /\ Op(hist[g], 2) = "clear" /\ Op(hist[g], 3) = "get"
        /\ ret[g].valid /\ ret[g].fields = NilFields
        /\ \E o \in Goroutines \ {g} : EntriesOf(traces, o) # {}

(* ------------------------------- C4 ----------------------------------- *)
\* entries that can become older than maxTraceAge before the clock's last value
CanExpire ==
    {e \in UNION {[gID : {getGoroutineID(g)}, fields : SetInputs(g), timestamp : 0..MaxClock] :
                    g \in Goroutines} :
        OlderThan(e, MaxClock, maxTraceAge)}
ExpiredGoneAfterCycle == cl.pc = "done" => cl.startExpired \cap traces = {}
\* C4 (age eviction): an entry older than maxTraceAge when a cleanup cycle starts is
\* not in the store when the cycle completes (a SetTraceFields of that identity
\* replaces it by an entry with a later timestamp); with a ticker that keeps firing
\* every entry that is not refreshed is eventually removed.
C4_AgeEviction ==
    /\ [](ExpiredGoneAfterCycle)
    /\ \A e \in CanExpire : (e \in traces) ~> (e \notin traces)
\* a cycle has completed that started with an expired entry and deleted it by age
C4_Witness == cl.pc = "done" /\ cl.startExpired # {} /\ cl.startExpired \subseteq cl.ageDeleted

(* ------------------------------- C5 ----------------------------------- *)
\* C5 (size bound restored): when the snapshot of a cycle counted more than
\* maxTraceEntries entries, the cycle runs the size-based pass and the store holds
\* at most maxTraceEntries entries when that pass releases the lock.
C5_SizeBoundRestored ==
    (cl.pc = "done" /\ cl.totalEntries > maxTraceEntries)
        => (cl.sized /\ Cardinality(cl.after) <= maxTraceEntries)
\* the size pass found the store over the limit and cut it down
C5_Witness ==
    /\ cl.pc = "done" /\ cl.totalEntries > maxTraceEntries
    /\ Cardinality(cl.before) > maxTraceEntries
    /\ Cardinality(cl.after) = maxTraceEntries

(* ------------------------------- C6 ----------------------------------- *)
Over(n) == IF n > maxTraceEntries THEN n - maxTraceEntries ELSE 0
\* C6 (oldest first): the size-based pass removes exactly (entry count -
\* maxTraceEntries) entries, none when the store is within the limit; every entry
\* it keeps has a timestamp not earlier than every entry it removes.
C6_OldestFirst ==
    (cl.pc = "done" /\ cl.sized) =>
        LET removed == cl.before \ cl.after
        IN  /\ cl.after \subseteq cl.before
            /\ Cardinality(removed) = Over(Cardinality(cl.before))
            /\ \A r \in removed, k \in cl.after : r.timestamp <= k.timestamp
\* the pass removed an entry strictly older than one it kept
C6_Witness ==
    /\ cl.pc = "done" /\ cl.sized
    /\ \E r \in cl.before \ cl.after, k \in cl.after : r.timestamp < k.timestamp

(* ----------------------- reading the Logger calls --------------------- *)
\* Debug < Info < Warn < Error < Fatal
LevelOrder == <<"debug", "info", "warn", "error", "fatal">>
Rank(level) == CHOOSE i \in 1..Len(LevelOrder) : LevelOrder[i] = level
\* the Write calls sink w received from call id, and those carrying its record
WritesOf(w, id) == {i \in 1..Len(sinks[w]) : sinks[w][i].id = id}
RecordsOf(w, id) == {i \in WritesOf(w, id) : sinks[w][i].part = "rec"}
Began(g) == lp[g].id > 0
ReturnedLog(g) == Began(g) /\ lp[g].pc = "idle"
\* the record has been assembled: mergeFields has run
Assembled(g) ==
    \/ lp[g].pc \in {"write_wait", "writing"}
    \/ ReturnedLog(g) /\ lp[g].outcome \in {"written", "marshal_error"}
\* the assembled record can be rendered in the configured format
Renders(e) ==
    lcfg.Format = "text" \/ \A k \in DOMAIN e.Fields : e.Fields[k].kind \in {"string", "int"}

(* ------------------------------- C7 ----------------------------------- *)
\* C7 as stated (level filtering): for every pair (call level, configured level), a
\* call below the configured level writes nothing to any sink and a call at or above
\* it writes one record to every configured sink.
C7_Original ==
    \A g \in Goroutines :
        LET c == lp[g]
        IN  /\ (Began(g) /\ Rank(c.level) < Rank(lcfg.LogLevel))
                 => \A w \in 1..MaxSinks : WritesOf(w, c.id) = {}
            /\ (ReturnedLog(g) /\ Rank(c.level) >= Rank(lcfg.LogLevel))
                 => \A w \in 1..lcfg.nsinks : Cardinality(RecordsOf(w, c.id)) = 1
\* C7 amended (level filtering): for every pair (call level, configured level), a
\* call below the configured level makes no Write call on any sink; a call at or
\* above it that returns makes exactly one Write call carrying its record on every
\* configured sink, unless the record cannot be rendered (json.Marshal fails) or the
\* call panics on a reserved trace key, and then it writes nothing to any sink.
C7_LevelFiltering ==
    \A g \in Goroutines :
        LET c == lp[g]
        IN  /\ (Began(g) /\ Rank(c.level) < Rank(lcfg.LogLevel))
                 => \A w \in 1..MaxSinks : WritesOf(w, c.id) = {}
            /\ (ReturnedLog(g) /\ Rank(c.level) >= Rank(lcfg.LogLevel) /\ Renders(c.entry))
                 => \A w \in 1..lcfg.nsinks : Cardinality(RecordsOf(w, c.id)) = 1
            /\ (Began(g) /\ (c.pc = "panicked" \/ (ReturnedLog(g) /\ ~Renders(c.entry))))
                 => \A w \in 1..MaxSinks : WritesOf(w, c.id) = {}
\* a call exactly at the configured level has written one record to each of two sinks
C7_Witness ==
    \E g \in Goroutines :
        /\ ReturnedLog(g) /\ lp[g].level = lcfg.LogLevel /\ lp[g].level = "warn"
        /\ lcfg.nsinks = 2
        /\ \A w \in 1..2 : Cardinality(RecordsOf(w, lp[g].id)) = 1

(* ------------------------------- C8 ----------------------------------- *)
\* C8 (field precedence): in the assembled record every key of the call's fields, of
\* the logger's default fields and every non-reserved key of the caller's trace
\* fields is present, with the call's value if the call supplies the key, else the
\* default value if there is one, else the trace value.
C8_FieldPrecedence ==
    \A g \in Goroutines : Assembled(g) =>
        LET c == lp[g]
            tf == MapLookup(traces, getGoroutineID(g)).m
            d == loggers[c.logger].defaultFields
            cf == c.fields.m
            plain == DOMAIN tf \ {RequestIDKey, TraceIDKey}
        IN  /\ DOMAIN c.entry.Fields = DOMAIN cf \cup DOMAIN d \cup plain
            /\ \A k \in DOMAIN c.entry.Fields :
                 c.entry.Fields[k] = IF k \in DOMAIN cf THEN cf[k]
                                     ELSE IF k \in DOMAIN d THEN d[k] ELSE tf[k]
\* default {a:1}, trace {a:2, b:3}, call {a:4}: the record holds a = 4 and b = 3
C8_Witness ==
    \E g \in Goroutines :
        /\ Assembled(g)
        /\ loggers[lp[g].logger].defaultFields = ("a" :> S(1))
        /\ MapLookup(traces, getGoroutineID(g)) = TraceInput(1)
        /\ lp[g].fields = MkFields("a" :> S(4))
        /\ lp[g].entry.Fields = (("a" :> S(4)) @@ ("b" :> S(3)))

(* ------------------------------- C9 ----------------------------------- *)
\* C9 (logging never interrupts the caller): whatever the caller's trace fields, the
\* call's fields and the outcome of marshalling and of the sink writes, a
\* Debug/Info/Warn/Error call neither panics nor terminates the process.
C9_NeverInterrupts ==
    \A g \in Goroutines :
        (Began(g) /\ lp[g].level # "fatal") => (lp[g].pc # "panicked" /\ ~exited)

(* ------------------------------- C10 ---------------------------------- *)
\* C10 (sink write exclusion): on every sink the bytes of one log call, the record
\* and in json format its newline, are not interleaved with those of another call.
C10_NoInterleaving ==
    \A w \in 1..MaxSinks : \A i \in 1..(Len(sinks[w]) - 1) :
        (lcfg.Format = "json" /\ sinks[w][i].part = "rec")
            => sinks[w][i + 1].id = sinks[w][i].id

(* ------------------------------- C11 ---------------------------------- *)
\* the call is at or above the configured level: Logger.log goes past the level check
Enabled(g) == Began(g) /\ Rank(lp[g].level) >= Rank(lcfg.LogLevel)
Reserved == {RequestIDKey, TraceIDKey}
\* C11 (reserved-key lifting): when the caller's trace fields contain request_id or
\* trace_id, the record of an enabled call carries their values in RequestID / TraceID
\* and the trace fields put neither key into Fields; every other trace key is in
\* Fields, with the trace value unless a default or call field overrides it.
C11_ReservedLifting ==
    \A g \in Goroutines : Enabled(g) =>
        LET c == lp[g]
            tf == MapLookup(traces, getGoroutineID(g)).m
            d == loggers[c.logger].defaultFields
            cf == c.fields.m
        IN  /\ RequestIDKey \in DOMAIN tf => c.entry.RequestID = tf[RequestIDKey]
            /\ TraceIDKey \in DOMAIN tf => c.entry.TraceID = tf[TraceIDKey]
            /\ \A k \in Reserved \cap DOMAIN c.entry.Fields : k \in DOMAIN d \cup DOMAIN cf
            /\ \A k \in DOMAIN tf \ Reserved :
                 /\ k \in DOMAIN c.entry.Fields
                 /\ k \notin DOMAIN d \cup DOMAIN cf => c.entry.Fields[k] = tf[k]

(* ------------------------------- C12 ---------------------------------- *)
\* C12 (Fatal ordering): a Fatal call terminates the process, whatever the configured
\* level and the outcome of the sink writes: it does not panic, it never returns to
\* its caller, and when the process exits the record has been handed to every
\* configured sink.
C12_FatalOrdering ==
    \A g \in Goroutines : (Began(g) /\ lp[g].level = "fatal") =>
        /\ lp[g].pc # "panicked"
        /\ lp[g].pc = "idle" => exited
        /\ exited => \A w \in 1..lcfg.nsinks : RecordsOf(w, lp[g].id) # {}

(* ------------------------------- C13 ---------------------------------- *)
\* this step is a WithFields call that returns logger n
Returns(n) == built.called /\ ~loggers[n].live /\ loggers'[n].live
\* n shares config and writers with p; its defaults are p's overridden by f
ChildOf(n, p, f) ==
    /\ n.config = p.config
    /\ n.writers = p.writers
    /\ DOMAIN n.defaultFields = DOMAIN p.defaultFields \cup DOMAIN f.m
    /\ \A k \in DOMAIN n.defaultFields :
         n.defaultFields[k] = IF k \in DOMAIN f.m THEN f.m[k] ELSE p.defaultFields[k]
WithFieldsCopies ==
    \A n \in Loggers : Returns(n) =>
        \E l \in Loggers \ {n}, f \in WithInputs :
            loggers[l].live /\ ChildOf(loggers'[n], loggers[l], f)
LoggersKeepFields ==
    \A l \in Loggers : loggers[l].live =>
        /\ loggers'[l].live
        /\ loggers'[l].config = loggers[l].config
        /\ loggers'[l].writers = loggers[l].writers
        /\ loggers'[l].defaultFields = loggers[l].defaultFields
\* C13 (WithFields copy semantics): WithFields(f) returns a new logger with the
\* parent's config and writers whose default fields are the parent's overridden by f;
\* no step, and so no later WithFields on a child, changes the default fields of a
\* logger that already exists (the parent, a sibling).
C13_WithFieldsCopy == [][WithFieldsCopies /\ LoggersKeepFields]_vars
\* parent {a:1}, child {a:5}, grandchild {a:5, b:6}: the parent and the child are intact
C13_Witness ==
    /\ loggers[1].live /\ loggers[1].defaultFields = ("a" :> S(1))
    /\ loggers[2].live /\ loggers[2].defaultFields = ("a" :> S(5))
    /\ loggers[3].live /\ loggers[3].defaultFields = (("a" :> S(5)) @@ ("b" :> S(6)))
    /\ loggers[3].writers = loggers[1].writers /\ loggers[3].config = loggers[1].config

(* ------------------------------- C14 ---------------------------------- *)
\* a path of the configuration cannot be opened as a sink
SomePathFails == \E i \in 1..Len(built.paths) : built.paths[i] \in built.bad
\* C14 (construction fails fast): if a path of outputPaths cannot be opened NewLogger
\* returns an error and no logger, however many earlier paths opened; if every path
\* opens it returns no error and a logger with one writer per path, in order; a nil
\* configuration is replaced by service unknown, environment development, level info,
\* format json, sink stdout.
C14_ConstructionFailsFast ==
    built.called =>
        /\ SomePathFails =>
             built.err /\ built.logger = NoLogger /\ \A l \in Loggers : ~loggers[l].live
        /\ ~SomePathFails =>
             /\ ~built.err /\ built.logger = 1 /\ loggers[1].live
             /\ loggers[1].writers = built.paths
             /\ lcfg.OutputPaths = built.paths
        /\ built.cfgNil =>
             /\ ~built.err
             /\ lcfg.ServiceName = "unknown" /\ lcfg.Environment = "development"
             /\ lcfg.LogLevel = "info" /\ lcfg.Format = "json"
             /\ lcfg.OutputPaths = <<"stdout">>
\* the first path opened, the second did not: an error and no logger
C14_Witness ==
    /\ built.called /\ built.err /\ built.logger = NoLogger
    /\ Len(built.paths) = 2
    /\ built.paths[1] \in FilePaths \ built.bad /\ built.paths[2] \in built.bad

(* ------------------------------- C15 ---------------------------------- *)
\* this step is the delete loop of the age pass, under the exclusive lock
AgeDeleteStep == cl.pc = "age" /\ cl'.pc # "age"
AgeDeletesOnlyExpired ==
    AgeDeleteStep => \A e \in traces \ traces' : OlderThan(e, clock, maxTraceAge)
\* C15 (the age pass deletes only expired entries): every entry the age pass deletes
\* is, at the moment of the deletion, older than maxTraceAge; an entry written by
\* SetTraceFields after the snapshot is not removed by that cycle's age pass.
C15_AgeDeletesOnlyExpired == [][AgeDeletesOnlyExpired]_vars

(* ------------------------------- C16 ---------------------------------- *)
\* the processes inside a section of code that reads / writes the entries map
Reading ==
    {g \in Goroutines : pc[g] = "get"} \cup (IF cl.pc = "snap" THEN {CleanerG} ELSE {})
Writing ==
    {g \in Goroutines : pc[g] \in {"set", "clear"}}
        \cup (IF cl.pc \in {"age", "size"} THEN {CleanerG} ELSE {})
Discipline ==
    /\ Cardinality(Writing) <= 1
    /\ Writing # {} => Reading = {}
    /\ Writing = (IF mu.writer = NoOwner THEN {} ELSE {mu.writer})
    /\ Reading = mu.readers
\* a step that changes the map is taken by the holder of the exclusive lock
WrittenUnderLock ==
    traces' # traces => (mu.writer # NoOwner /\ mu.writer \in Writing /\ mu'.writer = NoOwner)
\* a step that reads the map (the lookup of Get, the snapshot) is taken by a reader
ReadUnderLock ==
    /\ \A g \in Goroutines : (pc[g] = "get" /\ pc'[g] = "idle") => g \in mu.readers
    /\ (cl.pc = "snap" /\ cl'.pc # "snap") => CleanerG \in mu.readers
\* C16 (reader/writer discipline): in every reachable state the entries map is in
\* the hands of readers holding shared access (GetTraceFields, the snapshot) or of
\* one writer holding exclusive access (SetTraceFields, ClearTraceFields, the delete
\* passes), never both; no read or write of the map happens without the lock.
C16_ReaderWriterDiscipline ==
    [](Discipline) /\ [][WrittenUnderLock /\ ReadUnderLock]_vars
\* GetTraceFields and the snapshot read the map at the same time
C16_Witness ==
    /\ CleanerG \in Reading /\ Reading \cap Goroutines # {} /\ Writing = {}
    /\ Reading = mu.readers /\ traces # {}

(* ------------------------------- C17 ---------------------------------- *)
Holds(p) == mu.writer = p \/ p \in mu.readers
\* a process outside its critical sections holds no lock: a call that returned has
\* released what it acquired, no process is about to acquire a lock it holds, and the
\* cleanup cycle holds nothing between its snapshot, its age pass and its size pass
LocksReleased ==
    /\ \A g \in Goroutines : pc[g] = "idle" => ~Holds(g)
    /\ cl.pc \in {"wait", "start", "age_wait", "size_wait", "done"} => ~Holds(CleanerG)
    /\ mu.writer # NoOwner => mu.readers = {}
\* C17 (no deadlock, bounded lock holds): every call and every cleanup cycle releases
\* each lock it acquires and never acquires the lock while holding it; the cycle takes
\* the lock in separate acquisitions; with fair scheduling every call and every cycle
\* terminates and the lock is free again and again.
C17_NoDeadlock ==
    /\ [](LocksReleased)
    /\ \A g \in Goroutines : (pc[g] # "idle") ~> (pc[g] = "idle")
    /\ (cl.pc # "wait") ~> (cl.pc = "wait")
    /\ []<>(CanLock(mu))
\* the cycle waits for the exclusive lock of its age pass while a caller holds it
C17_Witness == cl.pc = "age_wait" /\ mu.writer \in Goroutines /\ ~Holds(CleanerG)

(* ------------------------------- C18 ---------------------------------- *)
\* this step is the lookup of a GetTraceFields of g whose last write was a Set
GetAfterSet(g) == pc[g] = "get" /\ pc'[g] = "idle" /\ LastWrite(hist[g])[1] = "set"
GetObservesStored ==
    \A g \in Goroutines : GetAfterSet(g) => ret'[g].fields = LastWrite(hist[g])[2]
\* C18 (entry ownership): the field set of an entry belongs to the store alone: after
\* SetTraceFields(f) returned, whatever the caller writes afterwards to the map it
\* passed in or to a map GetTraceFields returned, the next GetTraceFields of that
\* identity observes the fields as they were passed to SetTraceFields.
C18_EntryOwnership == [][GetObservesStored]_vars

(* ------------------------------- C19 ---------------------------------- *)
\* this step belongs to a Debug/Info/Warn/Error/Fatal call
LogStep == lp' # lp
LogReadsOnly ==
    LogStep =>
        /\ traces' = traces
        /\ \A l \in Loggers : loggers'[l].defaultFields = loggers[l].defaultFields
\* C19 (logging is read-only on the trace store): no step of a logging call, filtered
\* out or written, changes the trace store (identities, fields, timestamps) or the
\* default fields of a logger; default and call fields merged into the record do not
\* reach the caller's trace fields.
C19_LoggingReadOnly == [][LogReadsOnly]_vars
\* a record with default, trace and call fields was written; the store is as it was
C19_Witness ==
    \E g \in Goroutines :
        /\ ReturnedLog(g) /\ lp[g].outcome = "written"
        /\ lp[g].entry.Fields = (("a" :> S(4)) @@ ("b" :> S(3)))
        /\ loggers[lp[g].logger].defaultFields = ("a" :> S(1))
        /\ traces = TracesWith(1)

(* ------------------------------- C20 ---------------------------------- *)
\* the identifier of a stack header: what follows the prefix, up to the first space
Identifier(stack) ==
    LET b == TrimPrefix(stack, GoroutinePrefix)
    IN  IF \E i \in 1..Len(b) : b[i] = " "
        THEN SubSeq(b, 1, (CHOOSE i \in 1..Len(b) : b[i] = " " /\ \A j \in 1..(i - 1) : b[j] # " ") - 1)
        ELSE b
\* the identifier is the decimal form of a number that fits the unsigned integer
Parses(id) ==
    /\ id # <<>>
    /\ \A i \in 1..Len(id) : DigitValue(id[i]) >= 0
    /\ ParseDigits(id, 0) <= MaxUint
====
